---- MODULE Spec2Model ----
(***************************************************************************)
(* The cluster agent of libnetwork (agent.go): the agent's life cycle, the *)
(* cluster-eligibility gate, the publication of endpoints into the         *)
(* distributed store, the per-network driver-table watches and the event   *)
(* dispatch loops.                                                         *)
(*                                                                         *)
(* Callers (goroutines of the controller's users) run the operations of    *)
(* agent.go step by step; a step is one access to shared state (a read or  *)
(* write of c.agent, one store call, one critical section half), so that   *)
(* every interleaving the Go scheduler allows is a behaviour.              *)
(***************************************************************************)
EXTENDS Integers, Sequences, FiniteSets, TLC

\* ------------------------------------------------------------------ bounds
\* operations begun in one behaviour
MaxOps == 4

\* ------------------------------------------------------------- the fixture
Procs == {"p1", "p2"}
Nets == {"n1", "n2", "nl"}

\* n.driverScope(): n1 and n2 are global-scope networks, nl is local
driverScope(n) == IF n = "nl" THEN "local" ELSE "global"

\* n.driverTables: the tables the network's driver declares
driverTables(n) == IF n = "n1" THEN <<"t1", "t2">> ELSE <<"t1">>

\* n.ingress: n1 is the ingress network
ingress(n) == n = "n1"

\* The endpoints handed to addToCluster and deleteFromCluster: on the global
\* network n1 or the local network nl (ep.getNetwork()), anonymous or not, interface address resolved or not, with or without a service id, and
\* the join information: "nil" (absent), or 0, 1 or 2 driver table entries.
Endpoints ==
    [id : {"e1"}, net : {"n1", "nl"}, anon : BOOLEAN, addr : BOOLEAN, svcID : {"", "s1"},
     joinInfo : {"nil", "none", "one", "two"}]

\* ep.joinInfo.driverTableEntries
driverTableEntries(ep) ==
    IF ep.joinInfo = "one" THEN <<[tableName |-> "t1", key |-> "k1", value |-> <<"v1">>]>>
    ELSE IF ep.joinInfo = "two"
    THEN <<[tableName |-> "t1", key |-> "k1", value |-> <<"v1">>],
           [tableName |-> "t2", key |-> "k2", value |-> <<"v2">>]>>
    ELSE <<>>

NoEp == [id |-> "", net |-> "", anon |-> TRUE, addr |-> FALSE, svcID |-> "", joinInfo |-> "nil"]


VARIABLES
    agent,      \* c.agent: 0 (nil) or the index of the live agent object
    agents,     \* the agent objects made so far: epTblCancel, driverCancelFuncs
    dbs,        \* the stores: networkDB of agent i is dbs[i]
    watches,    \* the watches registered so far, by cancellation handle, each with its dispatch loop
    lock,       \* the controller's mutex: "" or the caller holding it
    pc,         \* each caller's position
    loc,        \* each caller's locals, and the calls its operation has made
    ops,        \* operations begun and remote changes received
    last,       \* the addToCluster that returned last, while nothing else has been called since
    crash       \* "none", or why the process died: "nil" (nil dereference), "map" (concurrent map access)

vars == <<agent, agents, dbs, watches, lock, pc, loc, ops, last, crash>>

\* ------------------------------------------------------- values and records
\* net.IP.String() and net.ParseIP: the nil address is "" here and prints as "<nil>"
ValidIPs == {"10.0.0.5", "10.0.0.9"}
IPString(ip) == IF ip = "" THEN "<nil>" ELSE ip
ParseIP(s) == IF s \in ValidIPs THEN s ELSE ""

\* proto.Marshal of an EndpointRecord: the fields in wire order
Marshal(r) == <<r.Name, r.ServiceName, r.ServiceID, r.VirtualIP, r.IngressPorts, r.EndpointIP>>

\* proto.Unmarshal: the bytes of a record, or no bytes at all (the zero record), parse
CanUnmarshal(b) == Len(b) \in {0, 6}
Unmarshal(b) ==
    IF Len(b) = 6
    THEN [Name |-> b[1], ServiceName |-> b[2], ServiceID |-> b[3],
          VirtualIP |-> b[4], IngressPorts |-> b[5], EndpointIP |-> b[6]]
    ELSE [Name |-> "", ServiceName |-> "", ServiceID |-> "",
          VirtualIP |-> "", IngressPorts |-> "", EndpointIP |-> ""]

\* the endpoint's fields that addToCluster and deleteFromCluster read
epName(ep) == "web"
epSvcName(ep) == IF ep.svcID = "" THEN "" ELSE "svc"
epVirtualIP(ep) == IF ep.svcID = "" THEN "" ELSE "10.0.0.9"
epAddressIP(ep) == IF ep.addr THEN "10.0.0.5" ELSE ""
isAnonymous(ep) == ep.anon

\* a call made on the store, on a collaborator or on the handle map, with its result
CallRec(fn, tname, nid, key, value, res, had) ==
    [fn |-> fn, tname |-> tname, nid |-> nid, key |-> key, value |-> value,
     res |-> res, had |-> had]

NoEv == [kind |-> "none", table |-> "", nid |-> "", key |-> "", value |-> <<>>]

NoLoc == [op |-> "none", n |-> "n1", ep |-> NoEp, i |-> 0, h |-> 0, fns |-> <<>>,
          seen |-> {}, keys0 |-> {}, aid |-> 0, elig |-> FALSE, live |-> FALSE,
          calls |-> <<>>, walk |-> <<>>, snap |-> {}, ret |-> "none"]

NoLast == [n |-> "", ep |-> NoEp, ret |-> "none"]

\* ------------------------------------------------------------- the store
\* the keys of a driverCancelFuncs map: a key is present iff its list is non-empty
Keys(m) == {n \in Nets : m[n] # <<>>}

EmptyMap == [n \in Nets |-> <<>>]

Present(es, tname, nid, key) ==
    \E e \in es : e.table = tname /\ e.nid = nid /\ e.key = key

ValueOf(es, tname, nid, key) ==
    (CHOOSE e \in es : e.table = tname /\ e.nid = nid /\ e.key = key).value

Del(es, tname, nid, key) ==
    {e \in es : ~(e.table = tname /\ e.nid = nid /\ e.key = key)}

Put(es, tname, nid, key, value) ==
    Del(es, tname, nid, key)
        \cup {[table |-> tname, nid |-> nid, key |-> key, value |-> value]}

\* networkdb.Watch(tname, nid, ""): a new watch on store d, with a fresh
\* cancellation handle (its index); an empty nid means every network
Watch(ws, d, tname, nid) ==
    Append(ws, [db |-> d, table |-> tname, nid |-> nid, cancels |-> 0, by |-> {},
                ch |-> <<>>, loop |-> "none", fn |-> "", net |-> "",
                ev |-> NoEv, prev |-> NoEv, out |-> <<>>])

\* a cancellation handle invoked by operation op: the watch ends and its
\* channel is closed; cancels counts the invocations, by is who made them
Cancel(ws, h, op) == [ws EXCEPT ![h].cancels = @ + 1, ![h].by = @ \cup {op}]

\* the store hands a change to every live watch of store d that matches it
Emit(ws, d, ev) ==
    [h \in DOMAIN ws |->
        IF /\ ws[h].db = d
           /\ ws[h].cancels = 0
           /\ ws[h].table = ev.table
           /\ ws[h].nid \in {"", ev.nid}
        THEN [ws[h] EXCEPT !.ch = Append(@, ev)]
        ELSE ws[h]]

Event(kind, tname, nid, key, value) ==
    [kind |-> kind, table |-> tname, nid |-> nid, key |-> key, value |-> value]

\* go c.handleTableEvents(ch, fn): the watch's dispatch loop starts, with its handler
Go(ws, h, fn, n) == [ws EXCEPT ![h].loop = "run", ![h].fn = fn, ![h].net = n]

\* ---------------------------------------------------- faulty variants
\* Variants of the definitions below, each with one fault, against which the
\* properties are tried.

\* the gate without the scope test of line 134
isClusterEligible_anyScope(n) == agent # 0

\* a walk callback that returns true and stops the walk at the first entry
visitStops_atFirst == TRUE

\* cancelDriverWatches without the delete of line 281
deleteFuncs_keeps(m, n) == m

\* the validation of line 380 without the address test
invalidRecord_nameOnly(epRec) == epRec.Name = ""

\* the type switch of lines 346-358 with an Update case that takes the
\* event's fields as the Delete case does
epEventCarries_all(kind) == TRUE

\* the type switch of lines 316-332 with an Update case that keeps the kind
driverEventType_keepsUpdate(kind) == kind

\* addDriverWatches and cancelDriverWatches without c.Lock()
Lock_none(p) == TRUE

\* the type switch of lines 316-332 with every event notified as a Delete
driverEventType_allDelete(kind) == "delete"

\* the condition of line 170 without the address test
publishes_anyAddress(ep) == ~isAnonymous(ep)

\* ------------------------------------------------------------------- Init
Init ==
    /\ agent = 0
    /\ agents = <<>>
    /\ dbs = <<>>
    /\ watches = <<>>
    /\ lock = ""
    /\ pc = [p \in Procs |-> "idle"]
    /\ loc = [p \in Procs |-> NoLoc]
    /\ ops = 0
    /\ last = NoLast
    /\ crash = "none"

\* ------------------------------------------------------------- the callers
At(p, l) == crash = "none" /\ pc[p] = l

Set(p, l) == loc' = [loc EXCEPT ![p] = l]
Goto(p, l) == pc' = [pc EXCEPT ![p] = l]
Done(p, l, r) ==
    /\ pc' = [pc EXCEPT ![p] = "done"]
    /\ loc' = [loc EXCEPT ![p] = [l EXCEPT !.ret = r]]

\* the caller's record of a call it made
Did(l, c) == [l EXCEPT !.calls = Append(@, c)]

\* a nil pointer is dereferenced: the goroutine panics and the process dies
Panic ==
    /\ crash' = "nil"
    /\ UNCHANGED <<agent, agents, dbs, watches, lock, pc, loc, ops, last>>

\* a caller starts operation op on network n and endpoint ep; l is the caller's
\* locals after the operation's first step, at(l) its position
Call(p, op, n, ep) ==
    /\ At(p, "idle")
    /\ ops < MaxOps
    /\ ops' = ops + 1
    /\ last' = IF op = "deleteFromCluster" THEN last ELSE NoLast

Entry(op, n, ep) == [NoLoc EXCEPT !.op = op, !.n = n, !.ep = ep]

\* the operation has returned to its caller
Return(p) ==
    /\ At(p, "done")
    /\ pc' = [pc EXCEPT ![p] = "idle"]
    /\ loc' = [loc EXCEPT ![p] = NoLoc]
    /\ last' = IF loc[p].op = "addToCluster"
               THEN [n |-> loc[p].n, ep |-> loc[p].ep, ret |-> loc[p].ret]
               ELSE NoLast
    /\ UNCHANGED <<agent, agents, dbs, watches, lock, ops, crash>>

\* c.Lock(): the mutex is free
Lock(p) == lock = ""

\* ------------------------------------------------------------ agentInit
\* c.isAgent(), resolveAddr and networkdb.New are the caller's inputs. The new
\* store and its endpoint-table watch are private to the caller until c.agent
\* is assigned, so agentInit is one step, taken at the assignment.
agentInit(p) ==
    /\ Call(p, "agentInit", "n1", NoEp)
    /\ \E isAgent \in BOOLEAN, resolved \in BOOLEAN, opened \in BOOLEAN :
        LET l == [NoLoc EXCEPT !.op = "agentInit"] IN
        IF ~isAgent
        THEN /\ Done(p, l, "nil")
             /\ UNCHANGED <<agent, agents, dbs, watches>>
        ELSE IF ~resolved \/ ~opened
        THEN /\ Done(p, l, "err")
             /\ UNCHANGED <<agent, agents, dbs, watches>>
        ELSE LET d == Len(dbs) + 1
                 h == Len(watches) + 1
             IN /\ dbs' = Append(dbs, [closed |-> FALSE, entries |-> {}])
                /\ watches' = Go(Watch(watches, d, "endpoint_table", ""), h, "ep", "")
                /\ agents' = Append(agents, [epTblCancel |-> h, driverCancelFuncs |-> EmptyMap])
                /\ agent' = d
                /\ Done(p, Did(l, CallRec("Watch", "endpoint_table", "", "", <<h>>, "ok", FALSE)), "nil")
    /\ UNCHANGED <<lock, crash>>

\* ------------------------------------------------------------ agentClose
\* line 117: the call, and if c.agent == nil { return }
agentClose_check(p) ==
    /\ Call(p, "agentClose", "n1", NoEp)
    /\ IF agent = 0
       THEN Done(p, Entry("agentClose", "n1", NoEp), "nil")
       ELSE Goto(p, "ac121") /\ Set(p, Entry("agentClose", "n1", NoEp))
    /\ UNCHANGED <<agent, agents, dbs, watches, lock, crash>>

\* line 121: range c.agent.driverCancelFuncs evaluates the map once
agentClose_range(p) ==
    /\ At(p, "ac121")
    /\ IF agent = 0 THEN Panic
       ELSE /\ Goto(p, "ac122")
            /\ Set(p, [loc[p] EXCEPT !.aid = agent, !.seen = {},
                                     !.keys0 = Keys(agents[agent].driverCancelFuncs)])
            /\ UNCHANGED <<agent, agents, dbs, watches, lock, ops, last, crash>>

\* line 121: the next key of the map. A key deleted before it is reached is
\* not produced; a key added during the iteration may be produced or not.
agentClose_next(p) ==
    /\ At(p, "ac122")
    /\ LET m == agents[loc[p].aid].driverCancelFuncs IN
       \/ \E n \in Keys(m) \ loc[p].seen :
            /\ Set(p, [loc[p] EXCEPT !.fns = m[n], !.seen = @ \cup {n}])
            /\ Goto(p, "ac123")
       \/ /\ (Keys(m) \cap loc[p].keys0) \subseteq loc[p].seen
          /\ Goto(p, "ac126")
          /\ UNCHANGED loc
    /\ UNCHANGED <<agent, agents, dbs, watches, lock, ops, last, crash>>

\* lines 122-124: cancel() for each handle of the list
agentClose_cancel(p) ==
    /\ At(p, "ac123")
    /\ IF loc[p].fns = <<>>
       THEN Goto(p, "ac122") /\ UNCHANGED <<loc, watches>>
       ELSE /\ watches' = Cancel(watches, Head(loc[p].fns), "agentClose")
            /\ Set(p, Did([loc[p] EXCEPT !.fns = Tail(@)],
                          CallRec("cancel", "", "", "", <<Head(loc[p].fns)>>, "ok", FALSE)))
            /\ UNCHANGED pc
    /\ UNCHANGED <<agent, agents, dbs, lock, ops, last, crash>>

\* line 126: c.agent.epTblCancel()
agentClose_epCancel(p) ==
    /\ At(p, "ac126")
    /\ IF agent = 0 THEN Panic
       ELSE /\ watches' = Cancel(watches, agents[agent].epTblCancel, "agentClose")
            /\ Goto(p, "ac128")
            /\ Set(p, Did(loc[p], CallRec("epTblCancel", "", "", "",
                                          <<agents[agent].epTblCancel>>, "ok", FALSE)))
            /\ UNCHANGED <<agent, agents, dbs, lock, ops, last, crash>>

\* line 128: c.agent.networkDB.Close()
agentClose_dbClose(p) ==
    /\ At(p, "ac128")
    /\ IF agent = 0 THEN Panic
       ELSE /\ dbs' = [dbs EXCEPT ![agent].closed = TRUE]
            /\ Goto(p, "ac129")
            /\ Set(p, Did(loc[p], CallRec("Close", "", "", "", <<agent>>, "ok", FALSE)))
            /\ UNCHANGED <<agent, agents, watches, lock, ops, last, crash>>

\* line 129: c.agent = nil
agentClose_clear(p) ==
    /\ At(p, "ac129")
    /\ agent' = 0
    /\ Done(p, Did(loc[p], CallRec("clear", "", "", "", <<>>, "ok", FALSE)), "nil")
    /\ UNCHANGED <<agents, dbs, watches, lock, ops, last, crash>>

agentClose(p) ==
    \/ agentClose_check(p)
    \/ agentClose_range(p)
    \/ agentClose_next(p)
    \/ agentClose_cancel(p)
    \/ agentClose_epCancel(p)
    \/ agentClose_dbClose(p)
    \/ agentClose_clear(p)

\* ------------------------------------------------------ isClusterEligible
isClusterEligible(n) ==
    IF driverScope(n) # "global" THEN FALSE
    ELSE IF agent = 0 THEN FALSE
    ELSE TRUE

\* the call of a cluster operation and the gate it starts with:
\*     if !n.isClusterEligible() { return nil }
\* to is where an eligible call goes on, with locals l; live records whether
\* c.agent was set when the gate was passed
Gate(p, l, to) ==
    /\ Call(p, l.op, l.n, l.ep)
    /\ IF isClusterEligible(l.n)
       THEN /\ Goto(p, to)
            /\ Set(p, [l EXCEPT !.elig = TRUE, !.live = (agent # 0)])
       ELSE Done(p, [l EXCEPT !.elig = FALSE, !.live = (agent # 0)], "nil")
    /\ UNCHANGED <<agent, agents, dbs, watches, lock, crash>>

\* ------------------------------------------------- joinCluster, leaveCluster
\* lines 146-148
joinCluster_gate(p) == \E n \in Nets : Gate(p, Entry("joinCluster", n, NoEp), "jc151")

\* line 151: return c.agent.networkDB.JoinNetwork(n.ID())
joinCluster_join(p) ==
    /\ At(p, "jc151")
    /\ IF agent = 0 THEN Panic
       ELSE /\ \E res \in {"ok", "err"} :
                Done(p, Did(loc[p], CallRec("JoinNetwork", "", loc[p].n, "", <<>>, res, FALSE)),
                     IF res = "ok" THEN "nil" ELSE "err")
            /\ UNCHANGED <<agent, agents, dbs, watches, lock, ops, last, crash>>

joinCluster(p) == joinCluster_gate(p) \/ joinCluster_join(p)

\* lines 155-157
leaveCluster_gate(p) == \E n \in Nets : Gate(p, Entry("leaveCluster", n, NoEp), "lc160")

\* line 160: return c.agent.networkDB.LeaveNetwork(n.ID())
leaveCluster_leave(p) ==
    /\ At(p, "lc160")
    /\ IF agent = 0 THEN Panic
       ELSE /\ \E res \in {"ok", "err"} :
                Done(p, Did(loc[p], CallRec("LeaveNetwork", "", loc[p].n, "", <<>>, res, FALSE)),
                     IF res = "ok" THEN "nil" ELSE "err")
            /\ UNCHANGED <<agent, agents, dbs, watches, lock, ops, last, crash>>

leaveCluster(p) == leaveCluster_gate(p) \/ leaveCluster_leave(p)

\* ------------------------------------------------------- the store's calls
\* What a store call may return. The store reports errors of its own (an entry
\* that exists already, a key that is absent, a network it has not joined), so
\* every call may succeed or fail.
CreateEntryResults == {"ok", "err"}
DeleteEntryResults == {"ok", "err"}

\* networkDB.CreateEntry(tname, nid, key, value) on the agent's store
CreateEntry(tname, nid, key, value, res) ==
    /\ dbs' = IF res = "ok"
              THEN [dbs EXCEPT ![agent].entries = Put(@, tname, nid, key, value)]
              ELSE dbs
    /\ watches' = IF res = "ok"
                  THEN Emit(watches, agent, Event("create", tname, nid, key, value))
                  ELSE watches

\* networkDB.DeleteEntry(tname, nid, key) on the agent's store
DeleteEntry(tname, nid, key, res) ==
    LET es == dbs[agent].entries
        had == Present(es, tname, nid, key)
    IN /\ dbs' = IF res = "ok" /\ had
                 THEN [dbs EXCEPT ![agent].entries = Del(@, tname, nid, key)]
                 ELSE dbs
       /\ watches' = IF res = "ok" /\ had
                     THEN Emit(watches, agent,
                               Event("delete", tname, nid, key, ValueOf(es, tname, nid, key)))
                     ELSE watches

Err(res) == IF res = "ok" THEN "nil" ELSE "err"

\* ---------------------------------------------------------- addToCluster
\* the endpoint is published in "endpoint_table": line 170
publishes(ep) == ~isAnonymous(ep) /\ epAddressIP(ep) # ""

\* lines 171-176: the ingress ports that are gossiped
addIngressPorts(n, ep) == IF ep.svcID # "" /\ ingress(n) THEN "ports" ELSE ""

\* lines 183-190
EndpointRecord(n, ep) ==
    [Name |-> epName(ep), ServiceName |-> epSvcName(ep), ServiceID |-> ep.svcID,
     VirtualIP |-> IPString(epVirtualIP(ep)), IngressPorts |-> addIngressPorts(n, ep),
     EndpointIP |-> IPString(epAddressIP(ep))]

\* lines 164-172: the call, the gate, then the branch on anonymity, address and
\* service id
addToCluster_gate(p) ==
    \E ep \in Endpoints :
        Gate(p, [Entry("addToCluster", ep.net, ep) EXCEPT !.i = 1],
             IF publishes(ep)
             THEN (IF ep.svcID # "" THEN "atc178" ELSE "atc196")
             ELSE "atc201")

\* faulty variant: the error of c.addServiceBinding is not returned
addToCluster_bind_goesOn(p) ==
    /\ At(p, "atc178")
    /\ LET l == loc[p] ep == l.ep IN
       \E res \in {"ok", "err"} :
         LET c == CallRec("addServiceBinding", "", l.n, ep.id,
                          <<epSvcName(ep), ep.svcID, epVirtualIP(ep),
                            addIngressPorts(l.n, ep), epAddressIP(ep)>>, res, FALSE)
         IN Goto(p, "atc196") /\ Set(p, Did(l, c))
    /\ UNCHANGED <<agent, agents, dbs, watches, lock, ops, last, crash>>

\* line 178: c.addServiceBinding(...); its error is returned
addToCluster_bind(p) ==
    /\ At(p, "atc178")
    /\ LET l == loc[p] ep == l.ep IN
       \E res \in {"ok", "err"} :
         LET c == CallRec("addServiceBinding", "", l.n, ep.id,
                          <<epSvcName(ep), ep.svcID, epVirtualIP(ep),
                            addIngressPorts(l.n, ep), epAddressIP(ep)>>, res, FALSE)
         IN IF res = "ok"
            THEN Goto(p, "atc196") /\ Set(p, Did(l, c))
            ELSE Done(p, Did(l, c), "err")
    /\ UNCHANGED <<agent, agents, dbs, watches, lock, ops, last, crash>>

\* line 196: CreateEntry("endpoint_table", n.ID(), ep.ID(), buf)
addToCluster_publish(p) ==
    /\ At(p, "atc196")
    /\ IF agent = 0 THEN Panic
       ELSE LET l == loc[p]
                buf == Marshal(EndpointRecord(l.n, l.ep))
            IN \E res \in CreateEntryResults :
                /\ CreateEntry("endpoint_table", l.n, l.ep.id, buf, res)
                /\ LET c == CallRec("CreateEntry", "endpoint_table", l.n, l.ep.id, buf, res,
                                    Present(dbs[agent].entries, "endpoint_table", l.n, l.ep.id))
                   IN IF res = "ok"
                      THEN Goto(p, "atc201") /\ Set(p, Did(l, c))
                      ELSE Done(p, Did(l, c), "err")
                /\ UNCHANGED <<agent, agents, lock, ops, last, crash>>

\* faulty variant: the loop of lines 201-205 goes on after a CreateEntry that
\* failed
addToCluster_entries_goesOn(p) ==
    /\ At(p, "atc201")
    /\ LET l == loc[p]
           tes == driverTableEntries(l.ep)
       IN IF l.ep.joinInfo = "nil" THEN Panic
          ELSE IF l.i > Len(tes)
          THEN /\ Done(p, l, "nil")
               /\ UNCHANGED <<agent, agents, dbs, watches, lock, ops, last, crash>>
          ELSE IF agent = 0 THEN Panic
          ELSE LET te == tes[l.i] IN
               \E res \in CreateEntryResults :
                /\ CreateEntry(te.tableName, l.n, te.key, te.value, res)
                /\ LET c == CallRec("CreateEntry", te.tableName, l.n, te.key, te.value, res,
                                    Present(dbs[agent].entries, te.tableName, l.n, te.key))
                   IN Set(p, Did([l EXCEPT !.i = @ + 1], c)) /\ UNCHANGED pc
                /\ UNCHANGED <<agent, agents, lock, ops, last, crash>>

\* lines 201-207: CreateEntry for each driver table entry, until one fails;
\* ep.joinInfo is dereferenced unchecked
addToCluster_entries(p) ==
    /\ At(p, "atc201")
    /\ LET l == loc[p]
           tes == driverTableEntries(l.ep)
       IN IF l.ep.joinInfo = "nil" THEN Panic
          ELSE IF l.i > Len(tes)
          THEN /\ Done(p, l, "nil")
               /\ UNCHANGED <<agent, agents, dbs, watches, lock, ops, last, crash>>
          ELSE IF agent = 0 THEN Panic
          ELSE LET te == tes[l.i] IN
               \E res \in CreateEntryResults :
                /\ CreateEntry(te.tableName, l.n, te.key, te.value, res)
                /\ LET c == CallRec("CreateEntry", te.tableName, l.n, te.key, te.value, res,
                                    Present(dbs[agent].entries, te.tableName, l.n, te.key))
                   IN IF res = "ok"
                      THEN Set(p, Did([l EXCEPT !.i = @ + 1], c)) /\ UNCHANGED pc
                      ELSE Done(p, Did(l, c), "err")
                /\ UNCHANGED <<agent, agents, lock, ops, last, crash>>

addToCluster(p) ==
    \/ addToCluster_gate(p)
    \/ addToCluster_bind(p)
    \/ addToCluster_publish(p)
    \/ addToCluster_entries(p)

\* ----------------------------------------------------- deleteFromCluster
\* lines 218-222
rmIngressPorts(n, ep) == IF ingress(n) THEN "ports" ELSE ""

\* line 218: the service binding is removed
unbinds(ep) == ep.svcID # "" /\ epAddressIP(ep) # ""

\* lines 211-218: the call, the gate, then the branch on anonymity, service id
\* and address
deleteFromCluster_gate(p) ==
    \E ep \in Endpoints :
        Gate(p, [Entry("deleteFromCluster", ep.net, ep) EXCEPT !.i = 1],
             IF ~isAnonymous(ep)
             THEN (IF unbinds(ep) THEN "dfc224" ELSE "dfc229")
             ELSE "dfc234")

\* line 224: c.rmServiceBinding(...); its error is returned
deleteFromCluster_unbind(p) ==
    /\ At(p, "dfc224")
    /\ LET l == loc[p] ep == l.ep IN
       \E res \in {"ok", "err"} :
         LET c == CallRec("rmServiceBinding", "", l.n, ep.id,
                          <<epSvcName(ep), ep.svcID, epVirtualIP(ep),
                            rmIngressPorts(l.n, ep), epAddressIP(ep)>>, res, FALSE)
         IN IF res = "ok"
            THEN Goto(p, "dfc229") /\ Set(p, Did(l, c))
            ELSE Done(p, Did(l, c), "err")
    /\ UNCHANGED <<agent, agents, dbs, watches, lock, ops, last, crash>>

\* line 229: DeleteEntry("endpoint_table", n.ID(), ep.ID())
deleteFromCluster_retract(p) ==
    /\ At(p, "dfc229")
    /\ IF agent = 0 THEN Panic
       ELSE LET l == loc[p] IN
            \E res \in DeleteEntryResults :
                /\ DeleteEntry("endpoint_table", l.n, l.ep.id, res)
                /\ LET c == CallRec("DeleteEntry", "endpoint_table", l.n, l.ep.id, <<>>, res,
                                    Present(dbs[agent].entries, "endpoint_table", l.n, l.ep.id))
                   IN IF res = "ok"
                      THEN Goto(p, "dfc234") /\ Set(p, Did(l, c))
                      ELSE Done(p, Did(l, c), "err")
                /\ UNCHANGED <<agent, agents, lock, ops, last, crash>>

\* lines 234-244: nothing more without join information; else DeleteEntry for
\* each driver table entry, until one fails
deleteFromCluster_entries(p) ==
    /\ At(p, "dfc234")
    /\ LET l == loc[p]
           tes == driverTableEntries(l.ep)
       IN IF l.ep.joinInfo = "nil" \/ l.i > Len(tes)
          THEN /\ Done(p, l, "nil")
               /\ UNCHANGED <<agent, agents, dbs, watches, lock, ops, last, crash>>
          ELSE IF agent = 0 THEN Panic
          ELSE LET te == tes[l.i] IN
               \E res \in DeleteEntryResults :
                /\ DeleteEntry(te.tableName, l.n, te.key, res)
                /\ LET c == CallRec("DeleteEntry", te.tableName, l.n, te.key, <<>>, res,
                                    Present(dbs[agent].entries, te.tableName, l.n, te.key))
                   IN IF res = "ok"
                      THEN Set(p, Did([l EXCEPT !.i = @ + 1], c)) /\ UNCHANGED pc
                      ELSE Done(p, Did(l, c), "err")
                /\ UNCHANGED <<agent, agents, lock, ops, last, crash>>

deleteFromCluster(p) ==
    \/ deleteFromCluster_gate(p)
    \/ deleteFromCluster_unbind(p)
    \/ deleteFromCluster_retract(p)
    \/ deleteFromCluster_entries(p)

\* ------------------------------------------------------ addDriverWatches
\* d.EventNotify(etype, nid, tname, key, value); of is the network id the
\* store's walk handed to the callback (none for a watch event)
Notify(etype, nid, tname, key, value, of) ==
    [fn |-> "EventNotify", etype |-> etype, nid |-> nid, tname |-> tname,
     key |-> key, value |-> value, of |-> of]

\* lines 266-269: the callback of the walk notifies the driver of a Create for
\* this network and returns false, so that the walk goes on
visit(n, tname, e) == Notify("create", n, tname, e.key, e.value, e.nid)
visitStops == FALSE

\* networkDB.WalkTable(tname, fn): fn is called for every entry of the table,
\* whatever its network, until fn returns true
RECURSIVE WalkTable(_, _, _)
WalkTable(es, n, tname) ==
    IF es = {} THEN <<>>
    ELSE LET e == CHOOSE x \in es : TRUE
         IN <<visit(n, tname, e)>>
                \o (IF visitStops THEN <<>> ELSE WalkTable(es \ {e}, n, tname))

TableEntries(d, tname) == {e \in dbs[d].entries : e.table = tname}

\* the Go runtime may detect a map write that runs while another goroutine
\* iterates over the same map, and then stops the process
MapRace(p) ==
    /\ \E q \in Procs \ {p} : pc[q] \in {"ac122", "ac123"} /\ loc[q].aid = agent
    /\ crash' = "map"
    /\ UNCHANGED <<agent, agents, dbs, watches, lock, pc, loc, ops, last>>

\* lines 248-250
addDriverWatches_gate(p) ==
    \E n \in Nets : Gate(p, [Entry("addDriverWatches", n, NoEp) EXCEPT !.i = 1], "adw254")

\* lines 253-254: the next table; ch, cancel := c.agent.networkDB.Watch(tableName, n.ID(), "")
addDriverWatches_watch(p) ==
    /\ At(p, "adw254")
    /\ LET l == loc[p]
           tables == driverTables(l.n)
       IN IF l.i > Len(tables)
          THEN /\ Done(p, l, "nil")
               /\ UNCHANGED <<agent, agents, dbs, watches, lock, ops, last, crash>>
          ELSE IF agent = 0 THEN Panic
          ELSE /\ watches' = Watch(watches, agent, tables[l.i], l.n)
               /\ Set(p, Did([l EXCEPT !.h = Len(watches) + 1],
                             CallRec("Watch", tables[l.i], l.n, "", <<Len(watches) + 1>>, "ok", FALSE)))
               /\ Goto(p, "adw255")
               /\ UNCHANGED <<agent, agents, dbs, lock, ops, last, crash>>

\* lines 255-256: c.Lock(), then the read of driverCancelFuncs[n.ID()]
addDriverWatches_lock(p) ==
    /\ At(p, "adw255")
    /\ Lock(p)
    /\ IF agent = 0 THEN Panic
       ELSE /\ lock' = p
            /\ Set(p, [loc[p] EXCEPT !.fns = agents[agent].driverCancelFuncs[loc[p].n]])
            /\ Goto(p, "adw256")
            /\ UNCHANGED <<agent, agents, dbs, watches, ops, last, crash>>

\* line 256: driverCancelFuncs[n.ID()] = append(the list read, cancel)
appendFunc(m, n, fns, h) == [m EXCEPT ![n] = Append(fns, h)]

\* lines 256-257: the list with cancel appended is stored in the map; c.Unlock()
addDriverWatches_append(p) ==
    /\ At(p, "adw256")
    /\ \/ IF agent = 0 THEN Panic
          ELSE /\ agents' = [agents EXCEPT ![agent].driverCancelFuncs =
                                appendFunc(@, loc[p].n, loc[p].fns, loc[p].h)]
               /\ lock' = IF lock = p THEN "" ELSE lock
               /\ Set(p, Did(loc[p], CallRec("append", "", loc[p].n, "", <<loc[p].h>>, "ok", FALSE)))
               /\ Goto(p, "adw259")
               /\ UNCHANGED <<agent, dbs, watches, ops, last, crash>>
       \/ MapRace(p)

\* lines 259-264: go c.handleTableEvents(ch, n.handleDriverTableEvent), then
\* n.driver(false), which may fail: addDriverWatches returns
addDriverWatches_go(p) ==
    /\ At(p, "adw259")
    /\ watches' = Go(watches, loc[p].h, "drv", loc[p].n)
    /\ \E resolved \in BOOLEAN :
        IF resolved
        THEN Goto(p, "adw266") /\ UNCHANGED loc
        ELSE Done(p, loc[p], "nil")
    /\ UNCHANGED <<agent, agents, dbs, lock, ops, last, crash>>

\* lines 266-269: c.agent.networkDB.WalkTable(tableName, ...)
addDriverWatches_walk(p) ==
    /\ At(p, "adw266")
    /\ IF agent = 0 THEN Panic
       ELSE LET l == loc[p]
                tname == driverTables(l.n)[l.i]
                es == TableEntries(agent, tname)
            IN /\ Set(p, Did([l EXCEPT !.i = @ + 1, !.snap = es,
                                       !.walk = WalkTable(es, l.n, tname)],
                             CallRec("WalkTable", tname, l.n, "", <<>>, "ok", FALSE)))
               /\ Goto(p, "adw254")
               /\ UNCHANGED <<agent, agents, dbs, watches, lock, ops, last, crash>>

addDriverWatches(p) ==
    \/ addDriverWatches_gate(p)
    \/ addDriverWatches_watch(p)
    \/ addDriverWatches_lock(p)
    \/ addDriverWatches_append(p)
    \/ addDriverWatches_go(p)
    \/ addDriverWatches_walk(p)

\* --------------------------------------------------- cancelDriverWatches
\* lines 274-276
cancelDriverWatches_gate(p) ==
    \E n \in Nets : Gate(p, Entry("cancelDriverWatches", n, NoEp), "cdw279")

\* lines 279-280: c.Lock(); cancelFuncs := c.agent.driverCancelFuncs[n.ID()]
cancelDriverWatches_take(p) ==
    /\ At(p, "cdw279")
    /\ Lock(p)
    /\ IF agent = 0 THEN Panic
       ELSE /\ lock' = p
            /\ Set(p, [loc[p] EXCEPT !.fns = agents[agent].driverCancelFuncs[loc[p].n]])
            /\ Goto(p, "cdw281")
            /\ UNCHANGED <<agent, agents, dbs, watches, ops, last, crash>>

\* line 281: delete(c.agent.driverCancelFuncs, n.ID())
deleteFuncs(m, n) == [m EXCEPT ![n] = <<>>]

\* lines 281-282: delete(c.agent.driverCancelFuncs, n.ID()); c.Unlock()
cancelDriverWatches_delete(p) ==
    /\ At(p, "cdw281")
    /\ \/ IF agent = 0 THEN Panic
          ELSE /\ agents' = [agents EXCEPT ![agent].driverCancelFuncs = deleteFuncs(@, loc[p].n)]
               /\ lock' = IF lock = p THEN "" ELSE lock
               /\ Set(p, Did(loc[p], CallRec("delete", "", loc[p].n, "", <<>>, "ok", FALSE)))
               /\ Goto(p, "cdw284")
               /\ UNCHANGED <<agent, dbs, watches, ops, last, crash>>
       \/ MapRace(p)

\* lines 284-286: cancel() for each handle taken
cancelDriverWatches_cancel(p) ==
    /\ At(p, "cdw284")
    /\ IF loc[p].fns = <<>>
       THEN Done(p, loc[p], "nil") /\ UNCHANGED watches
       ELSE /\ watches' = Cancel(watches, Head(loc[p].fns), "cancelDriverWatches")
            /\ Set(p, Did([loc[p] EXCEPT !.fns = Tail(@)],
                          CallRec("cancel", "", loc[p].n, "", <<Head(loc[p].fns)>>, "ok", FALSE)))
            /\ UNCHANGED pc
    /\ UNCHANGED <<agent, agents, dbs, lock, ops, last, crash>>

cancelDriverWatches(p) ==
    \/ cancelDriverWatches_gate(p)
    \/ cancelDriverWatches_take(p)
    \/ cancelDriverWatches_delete(p)
    \/ cancelDriverWatches_cancel(p)

\* ------------------------------------------------- handleDriverTableEvent
\* c.NetworkByID(nid): the controller knows the networks of Nets
NetworkByID(nid) == nid \in Nets

\* lines 316-332: the driver's event type for a store event
driverEventType(kind) ==
    IF kind = "create" THEN "create"
    ELSE IF kind = "delete" THEN "delete"
    ELSE "delete"

\* lines 302-335: the calls the handler makes for ev on network n; resolved
\* tells whether n.driver(false) finds the driver
handleDriverTableEvent(n, ev, resolved) ==
    IF ~resolved THEN <<>>
    ELSE <<Notify(driverEventType(ev.kind), n, ev.table, ev.key, ev.value, "")>>

\* ----------------------------------------------------- handleEpTableEvent
SvcCall(fn, nid, eid, r, res) ==
    CallRec(fn, "", nid, eid,
            <<r.ServiceName, r.ServiceID, ParseIP(r.VirtualIP), r.IngressPorts,
              ParseIP(r.EndpointIP)>>, res, FALSE)

RecCall(fn, nid, r) ==
    CallRec(fn, "", nid, "", <<r.Name, ParseIP(r.EndpointIP)>>, "ok", FALSE)

\* line 380: if name == "" || ip == nil
invalidRecord(epRec) == epRec.Name = "" \/ ParseIP(epRec.EndpointIP) = ""

\* lines 346-358: the cases of the type switch that take the event's network
\* id, key and value; an Update is logged and leaves them empty
epEventCarries(kind) == kind \in {"create", "delete"}

\* lines 337-404: the calls the handler makes for ev; res is what
\* addServiceBinding or rmServiceBinding returns if it is called
handleEpTableEvent(ev, res) ==
    LET known == epEventCarries(ev.kind)
        nid == IF known THEN ev.nid ELSE ""
        eid == IF known THEN ev.key ELSE ""
        value == IF known THEN ev.value ELSE <<>>
        isAdd == ev.kind = "create"
    IN IF ~NetworkByID(nid) THEN <<>>
       ELSE IF ~CanUnmarshal(value) THEN <<>>
       ELSE LET epRec == Unmarshal(value)
            IN IF invalidRecord(epRec) THEN <<>>
               ELSE IF isAdd
               THEN (IF epRec.ServiceID # ""
                     THEN (IF res = "ok"
                           THEN <<SvcCall("addServiceBinding", nid, eid, epRec, res),
                                  RecCall("addSvcRecords", nid, epRec)>>
                           ELSE <<SvcCall("addServiceBinding", nid, eid, epRec, res)>>)
                     ELSE <<RecCall("addSvcRecords", nid, epRec)>>)
               ELSE (IF epRec.ServiceID # ""
                     THEN (IF res = "ok"
                           THEN <<SvcCall("rmServiceBinding", nid, eid, epRec, res),
                                  RecCall("deleteSvcRecords", nid, epRec)>>
                           ELSE <<SvcCall("rmServiceBinding", nid, eid, epRec, res)>>)
                     ELSE <<RecCall("deleteSvcRecords", nid, epRec)>>)

\* ------------------------------------------------------ handleTableEvents
\* faulty variant: the loop returns when its handler drops an event
handleTableEvents_recv_endsOnDrop(h) ==
    /\ crash = "none"
    /\ watches[h].loop = "run"
    /\ watches[h].ch # <<>>
    /\ LET w == watches[h]
           ev == Head(w.ch)
       IN \E resolved \in BOOLEAN, res \in {"ok", "err"} :
            LET out == IF w.fn = "ep" THEN handleEpTableEvent(ev, res)
                       ELSE handleDriverTableEvent(w.net, ev, resolved)
            IN watches' = [watches EXCEPT ![h] =
                              [w EXCEPT !.ch = Tail(w.ch), !.ev = ev, !.prev = w.ev,
                                        !.out = out,
                                        !.loop = IF out = <<>> THEN "exit" ELSE "run"]]
    /\ UNCHANGED <<agent, agents, dbs, lock, pc, loc, ops, last, crash>>

\* lines 290-297: an event is received from the channel and handed to fn
handleTableEvents_recv(h) ==
    /\ crash = "none"
    /\ watches[h].loop = "run"
    /\ watches[h].ch # <<>>
    /\ LET w == watches[h]
           ev == Head(w.ch)
       IN \E resolved \in BOOLEAN, res \in {"ok", "err"} :
            LET out == IF w.fn = "ep" THEN handleEpTableEvent(ev, res)
                       ELSE handleDriverTableEvent(w.net, ev, resolved)
            IN watches' = [watches EXCEPT ![h] =
                              [w EXCEPT !.ch = Tail(w.ch), !.ev = ev, !.prev = w.ev,
                                        !.out = out]]
    /\ UNCHANGED <<agent, agents, dbs, lock, pc, loc, ops, last, crash>>

\* lines 292-295: the channel is closed and empty: the loop returns
handleTableEvents_closed(h) ==
    /\ crash = "none"
    /\ watches[h].loop = "run"
    /\ watches[h].ch = <<>>
    /\ watches[h].cancels > 0
    /\ watches' = [watches EXCEPT ![h].loop = "exit"]
    /\ UNCHANGED <<agent, agents, dbs, lock, pc, loc, ops, last, crash>>

handleTableEvents(h) == handleTableEvents_recv(h) \/ handleTableEvents_closed(h)

\* ------------------------------------------------------ the other nodes
\* the endpoint records other nodes publish: well formed with and without a
\* service, without a name, with an address that does not parse; and bytes
\* that are no record
RemoteRecord(name, svcID, ip) ==
    Marshal([Name |-> name, ServiceName |-> IF svcID = "" THEN "" ELSE "svc",
             ServiceID |-> svcID, VirtualIP |-> IF svcID = "" THEN "<nil>" ELSE "10.0.0.9",
             IngressPorts |-> "", EndpointIP |-> ip])

RemoteChanges ==
    [kind : {"create", "update"}, table : {"endpoint_table"}, nid : {"n1", "nx"}, key : {"e9"},
     value : {<<"junk">>, RemoteRecord("", "", "10.0.0.5"), RemoteRecord("db", "", "bogus"),
              RemoteRecord("db", "", "10.0.0.5"), RemoteRecord("db", "s1", "10.0.0.5")}]
    \cup [kind : {"create", "update"}, table : {"t1"}, nid : {"n1", "n2"}, key : {"k9"},
          value : {<<"v9">>}]

\* a change made on another node reaches store d, which tells its watches
Remote(d) ==
    /\ crash = "none"
    /\ ~dbs[d].closed
    /\ ops < MaxOps
    /\ ops' = ops + 1
    /\ \/ \E c \in RemoteChanges :
            /\ dbs' = [dbs EXCEPT ![d].entries = Put(@, c.table, c.nid, c.key, c.value)]
            /\ watches' = Emit(watches, d, c)
       \/ \E e \in dbs[d].entries :
            /\ e.key \in {"e9", "k9"}
            /\ dbs' = [dbs EXCEPT ![d].entries = @ \ {e}]
            /\ watches' = Emit(watches, d, Event("delete", e.table, e.nid, e.key, e.value))
    /\ UNCHANGED <<agent, agents, lock, pc, loc, last, crash>>

\* ---------------------------------------------------------- specifications
\* The agent's life cycle and the driver watches, with callers that run
\* concurrently, and the dispatch loops that end.
Lifecycle(p) ==
    \/ agentInit(p)
    \/ agentClose(p)
    \/ addDriverWatches(p)
    \/ cancelDriverWatches(p)
    \/ Return(p)

Next ==
    \/ \E p \in Procs : Lifecycle(p)
    \/ \E h \in DOMAIN watches : handleTableEvents_closed(h)

Spec == Init /\ [][Next]_vars

\* Every operation, called by one caller, one call after the other.
Caller(p) ==
    \/ agentInit(p)
    \/ agentClose(p)
    \/ joinCluster(p)
    \/ leaveCluster(p)
    \/ addToCluster(p)
    \/ deleteFromCluster(p)
    \/ addDriverWatches(p)
    \/ cancelDriverWatches(p)
    \/ Return(p)

NextSeq == Caller("p1")

SpecSeq == Init /\ [][NextSeq]_vars

\* The watches and their dispatch loops, with the changes other nodes make.
NextEvt ==
    \/ Lifecycle("p1")
    \/ \E h \in DOMAIN watches : handleTableEvents(h)
    \/ \E d \in DOMAIN dbs : Remote(d)

SpecEvt == Init /\ [][NextEvt]_vars

\* The same, with the scheduling of the dispatch loops: each loop is a
\* goroutine of its own, which the Go scheduler runs whenever it can receive
\* from its channel; a step of a loop stays enabled until the loop takes it.
SpecEvtFair == SpecEvt /\ WF_vars(\E h \in DOMAIN watches : handleTableEvents(h))

\* ------------------------------------------------------------------ claims
\* no operation is in flight and the process is alive
Quiescent == crash = "none" /\ \A p \in Procs : pc[p] \in {"idle", "done"}

\* C1: in every interleaving of addDriverWatches, cancelDriverWatches and
\* agentClose, each cancellation handle is invoked at most once; in particular
\* agentClose invokes no handle that cancelDriverWatches has taken out of the
\* map. (Two agentClose calls that overlap are outside the claim: a handle
\* that only they have invoked is not counted.)
C1_HandleInvokedAtMostOnce ==
    \A h \in DOMAIN watches :
        watches[h].cancels <= 1 \/ watches[h].by = {"agentClose"}

\* C2: once agentClose has returned and nothing is in flight, no watch of the
\* agent's store is left uncanceled (stated for the runs that make one agent)
C2_NoWatchLeftAfterClose ==
    (Len(agents) = 1 /\ agent = 0 /\ Quiescent)
        => \A h \in DOMAIN watches : watches[h].cancels >= 1

\* C3: agentClose cancels the recorded driver-table handles, then the
\* endpoint-table handle, then closes the store: at the step that closes the
\* store, no watch recorded in the agent is still uncanceled (stated for the
\* runs that make one agent)
C3_StoreClosedAfterWatchesCanceled ==
    [][\A a \in DOMAIN dbs :
          (Len(agents) = 1 /\ ~dbs[a].closed /\ dbs'[a].closed) =>
              /\ watches[agents[a].epTblCancel].cancels >= 1
              /\ \A n \in Nets :
                   \A i \in DOMAIN agents[a].driverCancelFuncs[n] :
                      watches[agents[a].driverCancelFuncs[n][i]].cancels >= 1]_vars

\* the operations behind the eligibility gate
GatedOps == {"joinCluster", "leaveCluster", "addToCluster", "deleteFromCluster",
             "addDriverWatches", "cancelDriverWatches"}

\* C4: a call of a gated operation is eligible exactly when the network's
\* scope is global and c.agent is set; an ineligible call returns nil at once,
\* has made no call on the store, on the service bindings or on the handle
\* map, and leaves the agent, the stores, the watches and the mutex as they were
C4_IneligibleIsNoOp ==
    [][\A p \in Procs :
          (pc[p] = "idle" /\ pc'[p] # "idle" /\ loc'[p].op \in GatedOps) =>
              /\ loc'[p].elig = (driverScope(loc'[p].n) = "global" /\ agent # 0)
              /\ ~loc'[p].elig =>
                    /\ pc'[p] = "done"
                    /\ loc'[p].ret = "nil"
                    /\ loc'[p].calls = <<>>
                    /\ UNCHANGED <<agent, agents, dbs, watches, lock>>]_vars

\* a gated operation was called on the local network while an agent was live,
\* and watches were recorded: it returned without a call
C4_Witness ==
    \E p \in Procs :
        /\ pc[p] = "done"
        /\ loc[p].op = "cancelDriverWatches"
        /\ ~loc[p].elig /\ loc[p].live
        /\ loc[p].calls = <<>>
        /\ agent # 0 /\ Keys(agents[agent].driverCancelFuncs) # {}

\* the entries of endpoint ep on network n: its endpoint-table entry and its
\* driver table entries
EndpointEntries(es, n, ep) ==
    {e \in es :
        /\ e.nid = n
        /\ \/ e.table = "endpoint_table" /\ e.key = ep.id
           \/ \E i \in DOMAIN driverTableEntries(ep) :
                e.table = driverTableEntries(ep)[i].tableName
                    /\ e.key = driverTableEntries(ep)[i].key}

\* deleteFromCluster has returned, right after addToCluster of the same
\* endpoint returned nil on an eligible network
RoundTrip(p) ==
    /\ pc[p] = "done"
    /\ loc[p].op = "deleteFromCluster"
    /\ loc[p].elig
    /\ last = [n |-> loc[p].n, ep |-> loc[p].ep, ret |-> "nil"]

\* the only calls of the operation that failed are DeleteEntry calls on a key
\* that was absent
OnlyAbsentKeysFailed(p) ==
    \A i \in DOMAIN loc[p].calls :
        loc[p].calls[i].res = "err" =>
            loc[p].calls[i].fn = "DeleteEntry" /\ ~loc[p].calls[i].had

\* C5: addToCluster followed by deleteFromCluster on the same endpoint leaves
\* the store with no endpoint-table entry and no driver table entry of the
\* endpoint, whether DeleteEntry on an absent key succeeds or returns an error
C5_PublishRetractLeavesNothing ==
    \A p \in Procs :
        (RoundTrip(p) /\ OnlyAbsentKeysFailed(p) /\ agent # 0)
            => EndpointEntries(dbs[agent].entries, loc[p].n, loc[p].ep) = {}

\* C6: the walk of addDriverWatches hands the driver exactly one Create for
\* each entry that the table holds for the network at walk time, with the
\* entry's key and value
C6_WalkReplaysEveryEntry ==
    \A p \in Procs :
        loc[p].op = "addDriverWatches" =>
            \A e \in loc[p].snap :
                e.nid = loc[p].n =>
                    Cardinality({j \in DOMAIN loc[p].walk :
                        loc[p].walk[j] =
                            Notify("create", loc[p].n, e.table, e.key, e.value, e.nid)}) = 1

\* the walk found an entry of the network and replayed it, and the new watch
\* has handled an event since
C6_Witness ==
    \E p \in Procs :
        /\ loc[p].op = "addDriverWatches"
        /\ \E e \in loc[p].snap : e.nid = loc[p].n
        /\ loc[p].walk # <<>>
        /\ watches[loc[p].h].ev # NoEv

\* the handles of the watches an addDriverWatches call has registered, in order
Registered(l) ==
    LET ws == SelectSeq(l.calls, LAMBDA c : c.fn = "Watch")
    IN [j \in DOMAIN ws |-> ws[j].value[1]]

\* the tables for which addDriverWatches has recorded a handle when it
\* returns: all of them, or those up to the table at which the driver did not resolve
Watched(l) ==
    IF l.i > Len(driverTables(l.n)) THEN Len(driverTables(l.n)) ELSE l.i

\* C7 as stated: after cancelDriverWatches no handle is recorded for the
\* network, and a following addDriverWatches records exactly one new handle
\* per declared driver table
C7_OneHandlePerDeclaredTable ==
    \A p \in Procs :
        (pc[p] = "done" /\ loc[p].elig /\ loc[p].op = "addDriverWatches")
            => Len(Registered(loc[p])) = Len(driverTables(loc[p].n))

\* C7 amended: after cancelDriverWatches returns no handle is recorded for the
\* network and every handle it took is canceled; addDriverWatches records one
\* new handle per driver table, for every table if the driver resolves and
\* else for the tables up to the one at which it does not; the new handles
\* end the network's list, and no recorded handle is a canceled one
C7_CancelThenAddIsFresh ==
    \A p \in Procs :
        (pc[p] = "done" /\ loc[p].elig /\ agent # 0) =>
            LET l == loc[p]
                lst == agents[agent].driverCancelFuncs[l.n]
                reg == Registered(l)
            IN /\ l.op = "cancelDriverWatches" =>
                    /\ lst = <<>>
                    /\ \A i \in DOMAIN l.calls :
                         l.calls[i].fn = "cancel" =>
                            watches[l.calls[i].value[1]].cancels = 1
               /\ l.op = "addDriverWatches" =>
                    /\ Len(reg) = Watched(l)
                    /\ Len(lst) >= Len(reg)
                    /\ \A j \in DOMAIN reg :
                         /\ lst[Len(lst) - Len(reg) + j] = reg[j]
                         /\ watches[reg[j]].table = driverTables(l.n)[j]
                         /\ watches[reg[j]].nid = l.n
                         /\ watches[reg[j]].db = agent
                    /\ \A j, k \in DOMAIN lst : lst[j] = lst[k] => j = k
                    /\ \A j \in DOMAIN lst : watches[lst[j]].cancels = 0

\* addDriverWatches has returned on a network whose earlier watches were
\* canceled: the list holds the new handles only
C7_Witness ==
    \E p \in Procs :
        /\ pc[p] = "done" /\ loc[p].elig /\ agent # 0
        /\ loc[p].op = "addDriverWatches"
        /\ Len(Registered(loc[p])) = 2
        /\ agents[agent].driverCancelFuncs[loc[p].n] = Registered(loc[p])
        /\ \E h \in DOMAIN watches :
              watches[h].nid = loc[p].n /\ watches[h].by = {"cancelDriverWatches"}

\* a Create or Delete event that carries no endpoint record, or a record
\* without a name or without an endpoint address that parses
Malformed(ev) ==
    /\ ev.kind \in {"create", "delete"}
    /\ \/ Len(ev.value) # 6
       \/ ev.value[1] = ""
       \/ ev.value[6] \notin ValidIPs

\* C8: a malformed event on the endpoint-table watch leads to no service
\* binding call and no name record call, and the dispatch loop goes on: it
\* ends only once its watch is canceled
C8_MalformedRecordIsDropped ==
    \A h \in DOMAIN watches :
        watches[h].fn = "ep" =>
            /\ Malformed(watches[h].ev) => watches[h].out = <<>>
            /\ watches[h].loop = "exit" => watches[h].cancels >= 1
            /\ watches[h].cancels = 0 => watches[h].loop = "run"

\* after a malformed event, the same loop has handled a well-formed Create
\* and made the calls for it
C8_Witness ==
    \E h \in DOMAIN watches :
        /\ watches[h].fn = "ep"
        /\ Malformed(watches[h].prev)
        /\ watches[h].ev.kind = "create" /\ ~Malformed(watches[h].ev)
        /\ watches[h].out # <<>>

\* C9: deleteFromCluster on an endpoint without join information makes no
\* DeleteEntry call and no rmServiceBinding call and returns nil, on an
\* eligible network too
C9_NoJoinInfoIsNoOp ==
    \A p \in Procs :
        (pc[p] = "done" /\ loc[p].op = "deleteFromCluster" /\ loc[p].elig
            /\ loc[p].ep.joinInfo = "nil")
            => loc[p].calls = <<>> /\ loc[p].ret = "nil"

\* the CreateEntry calls an addToCluster is to make, in order
ExpectedCreates(n, ep) ==
    (IF ~ep.anon /\ ep.addr
     THEN <<[tname |-> "endpoint_table", key |-> ep.id]>>
     ELSE <<>>)
    \o [i \in DOMAIN driverTableEntries(ep) |->
            [tname |-> driverTableEntries(ep)[i].tableName,
             key |-> driverTableEntries(ep)[i].key]]

CreateCalls(l) == SelectSeq(l.calls, LAMBDA c : c.fn = "CreateEntry")

\* C10: on an eligible network addToCluster calls CreateEntry on
\* "endpoint_table" under (network id, endpoint id) iff the endpoint is not
\* anonymous and has an address, and calls it for every driver table entry
\* under the entry's table and key, whatever the anonymity and the address:
\* the CreateEntry calls made are the expected ones in order, all of them
\* when addToCluster returns nil, and up to the call that failed otherwise
C10_PublishesWhatItShould ==
    \A p \in Procs :
        (loc[p].op = "addToCluster" /\ loc[p].elig) =>
            LET l == loc[p]
                made == CreateCalls(l)
                want == ExpectedCreates(l.n, l.ep)
            IN /\ Len(made) <= Len(want)
               /\ \A j \in DOMAIN made :
                    /\ made[j].tname = want[j].tname
                    /\ made[j].key = want[j].key
                    /\ made[j].nid = l.n
                    /\ (j < Len(made) => made[j].res = "ok")
               /\ (pc[p] = "done" /\ l.ret = "nil") =>
                    /\ Len(made) = Len(want)
                    /\ \A j \in DOMAIN made : made[j].res = "ok"
               /\ (pc[p] = "done" /\ l.ret = "err") =>
                    l.calls # <<>> /\ l.calls[Len(l.calls)].res = "err"

\* an anonymous endpoint's addToCluster has returned nil: its two driver table
\* entries are in the store and no endpoint-table entry is
C10_Witness ==
    \E p \in Procs :
        /\ pc[p] = "done" /\ loc[p].op = "addToCluster" /\ loc[p].elig
        /\ loc[p].ret = "nil"
        /\ loc[p].ep.anon /\ loc[p].ep.addr /\ loc[p].ep.joinInfo = "two"
        /\ agent # 0
        /\ Cardinality(EndpointEntries(dbs[agent].entries, loc[p].n, loc[p].ep)) = 2

\* C11: at most one agent is live at a time: there are never two stores that
\* are opened and not closed, nor two endpoint-table watches that are not
\* canceled
C11_AtMostOneLiveAgent ==
    /\ Cardinality({d \in DOMAIN dbs : ~dbs[d].closed}) <= 1
    /\ Cardinality({h \in DOMAIN watches :
                        watches[h].fn = "ep" /\ watches[h].cancels = 0}) <= 1

\* C12: the walk of addDriverWatches(n) hands the driver only entries of
\* network n: no entry stored under another network id is delivered as a
\* Create for n
C12_WalkOnlyOwnNetwork ==
    \A p \in Procs :
        loc[p].op = "addDriverWatches" =>
            \A j \in DOMAIN loc[p].walk : loc[p].walk[j].of = loc[p].n

\* the first call an operation made was an addServiceBinding that failed
BindFailed(l) ==
    /\ l.op = "addToCluster"
    /\ l.calls # <<>>
    /\ l.calls[1].fn = "addServiceBinding"
    /\ l.calls[1].res = "err"

\* C13: addToCluster on an eligible network, for an endpoint that is not
\* anonymous and has an address and a service id, calls addServiceBinding
\* first; if that fails, the operation returns the error at once, the store
\* is unchanged, and the operation makes no call after it, so no CreateEntry
\* at all
C13_BindFailureAborts ==
    [][\A p \in Procs :
          /\ (/\ pc[p] = "idle" /\ pc'[p] # "idle"
              /\ loc'[p].op = "addToCluster" /\ loc'[p].elig
              /\ ~loc'[p].ep.anon /\ loc'[p].ep.addr /\ loc'[p].ep.svcID # "")
                => pc'[p] = "atc178" /\ loc'[p].calls = <<>>
          /\ pc[p] = "atc178" =>
                /\ Len(loc'[p].calls) = 1
                /\ loc'[p].calls[1].fn = "addServiceBinding"
                /\ loc'[p].calls[1].nid = loc[p].n
                /\ loc'[p].calls[1].key = loc[p].ep.id
                /\ UNCHANGED dbs
          /\ (~BindFailed(loc[p]) /\ BindFailed(loc'[p])) =>
                /\ pc'[p] = "done"
                /\ loc'[p].ret = "err"
          /\ (BindFailed(loc[p]) /\ loc'[p].op = "addToCluster") =>
                /\ loc'[p].calls = loc[p].calls
                /\ UNCHANGED dbs]_vars

\* addServiceBinding failed for an endpoint with two driver table entries,
\* while the store held entries already: addToCluster has returned the error
\* after that one call
C13_Witness ==
    \E p \in Procs :
        /\ pc[p] = "done" /\ BindFailed(loc[p])
        /\ loc[p].ret = "err"
        /\ loc[p].ep.joinInfo = "two"
        /\ Len(loc[p].calls) = 1
        /\ agent # 0 /\ dbs[agent].entries # {}

\* the calls an operation made on the store's entries
EntryCalls(l) == {i \in DOMAIN l.calls : l.calls[i].fn \in {"CreateEntry", "DeleteEntry"}}

\* C14: in addToCluster and deleteFromCluster the first CreateEntry or
\* DeleteEntry that fails ends the operation with the error: it is the last
\* call of the operation; and nothing is rolled back: addToCluster deletes
\* nothing and every entry it created is in the store, deleteFromCluster
\* creates nothing and every entry it deleted is absent
C14_FirstErrorEndsNoRollback ==
    \A p \in Procs :
        (loc[p].op \in {"addToCluster", "deleteFromCluster"} /\ loc[p].elig /\ agent # 0) =>
            LET l == loc[p]
                es == dbs[agent].entries
            IN \A i \in EntryCalls(l) :
                 LET c == l.calls[i] IN
                 /\ c.fn = (IF l.op = "addToCluster" THEN "CreateEntry" ELSE "DeleteEntry")
                 /\ c.res = "err" =>
                        /\ i = Len(l.calls)
                        /\ pc[p] = "done"
                        /\ l.ret = "err"
                 /\ (c.res = "ok" /\ c.fn = "CreateEntry") =>
                        /\ Present(es, c.tname, c.nid, c.key)
                        /\ ValueOf(es, c.tname, c.nid, c.key) = c.value
                 /\ (c.res = "ok" /\ c.fn = "DeleteEntry") =>
                        ~Present(es, c.tname, c.nid, c.key)

\* addToCluster created the endpoint-table entry and the first driver table
\* entry, the third CreateEntry failed: it has returned the error and the two
\* entries are in the store
C14_Witness ==
    \E p \in Procs :
        /\ pc[p] = "done" /\ loc[p].op = "addToCluster" /\ loc[p].elig
        /\ loc[p].ret = "err"
        /\ loc[p].ep.joinInfo = "two"
        /\ Len(loc[p].calls) = 3
        /\ \A i \in DOMAIN loc[p].calls : loc[p].calls[i].fn = "CreateEntry"
        /\ loc[p].calls[3].res = "err"
        /\ agent # 0
        /\ Cardinality(EndpointEntries(dbs[agent].entries, loc[p].n, loc[p].ep)) = 2

\* C15: an Update event on the endpoint-table watch is dropped: the handler
\* makes no addServiceBinding or rmServiceBinding call and no addSvcRecords or
\* deleteSvcRecords call for it, whatever it carries
C15_UpdateIsDropped ==
    \A h \in DOMAIN watches :
        (watches[h].fn = "ep" /\ watches[h].ev.kind = "update") => watches[h].out = <<>>

\* the endpoint-table loop has handled an Update of a network the controller
\* knows, which carries a well-formed record with a service id
C15_Witness ==
    \E h \in DOMAIN watches :
        /\ watches[h].fn = "ep"
        /\ watches[h].ev.kind = "update"
        /\ NetworkByID(watches[h].ev.nid)
        /\ Len(watches[h].ev.value) = 6
        /\ watches[h].ev.value[1] # ""
        /\ watches[h].ev.value[3] # ""
        /\ watches[h].ev.value[6] \in ValidIPs

\* the calls the handler of watch w makes for ev
Handled(w, ev, out) ==
    IF w.fn = "ep"
    THEN \E res \in {"ok", "err"} : out = handleEpTableEvent(ev, res)
    ELSE \E resolved \in BOOLEAN : out = handleDriverTableEvent(w.net, ev, resolved)

\* a step of the dispatch loop of watch h: the events leave the channel at its
\* head, one at a time, and each is handed to the handler of the loop; the
\* store adds events at the tail only; the handler is called for nothing
\* else, and no more once the loop has ended; the loop ends only when its
\* watch is canceled and the channel is empty, whatever the handler did
LoopStep(h) ==
    LET w == watches[h]
        v == watches'[h]
    IN /\ w.ch # v.ch =>
            \/ /\ w.ch # <<>> /\ v.ch = Tail(w.ch)
               /\ w.loop = "run"
               /\ v.ev = Head(w.ch) /\ v.prev = w.ev
               /\ Handled(w, Head(w.ch), v.out)
            \/ /\ Len(v.ch) = Len(w.ch) + 1
               /\ SubSeq(v.ch, 1, Len(w.ch)) = w.ch
               /\ <<v.ev, v.prev, v.out>> = <<w.ev, w.prev, w.out>>
       /\ w.ch = v.ch => <<v.ev, v.prev, v.out>> = <<w.ev, w.prev, w.out>>
       /\ w.loop = "exit" => v.loop = "exit" /\ v.ch = w.ch
       /\ (w.loop = "run" /\ v.loop # "run") =>
            v.loop = "exit" /\ w.cancels >= 1 /\ w.ch = <<>>

\* C16: each dispatch loop hands every event of its channel to its handler,
\* one at a time and in the order received; it ends only when its watch is
\* canceled and the channel closed, not when the handler drops an event, and
\* calls the handler no more then; and once the watch is canceled the loop
\* eventually ends: a running loop leaves the state "canceled and running"
\* only by ending, and it is out of that state again and again
C16_DispatchLoop ==
    /\ [][\A h \in DOMAIN watches : LoopStep(h)]_vars
    /\ []<>(\A h \in DOMAIN watches :
                ~(watches[h].loop = "run" /\ watches[h].cancels >= 1))

\* a loop has ended after its watch was canceled, having handled a malformed
\* event, which its handler dropped, and then an event for which the handler
\* made calls
C16_Witness ==
    \E h \in DOMAIN watches :
        /\ watches[h].loop = "exit"
        /\ watches[h].cancels >= 1
        /\ Malformed(watches[h].prev)
        /\ watches[h].ev # NoEv
        /\ watches[h].out # <<>>

\* the one EventNotify call the driver is to get for event e of network n
DriverNotified(n, e) ==
    <<Notify(IF e.kind = "create" THEN "create" ELSE "delete", n, e.table, e.key,
             e.value, "")>>

\* C17: for each Create, Delete or Update event that the loop of a driver
\* table watch receives, handleDriverTableEvent calls EventNotify exactly once,
\* with the network's id and the event's table, key and value, and with kind
\* Create for Create and Delete for Delete and for Update; if the driver does
\* not resolve it makes no call; either way the event has left the channel and
\* is not handled again
C17_DriverEventMapping ==
    [][\A h \in DOMAIN watches :
          (/\ watches[h].fn = "drv"
           /\ watches[h].ch # <<>>
           /\ watches'[h].ch = Tail(watches[h].ch)) =>
              LET w == watches[h]
                  e == Head(w.ch)
              IN /\ e.kind \in {"create", "delete", "update"}
                 /\ w.net = w.nid
                 /\ handleDriverTableEvent(w.net, e, TRUE) = DriverNotified(w.nid, e)
                 /\ handleDriverTableEvent(w.net, e, FALSE) = <<>>
                 /\ watches'[h].out \in {DriverNotified(w.nid, e), <<>>}
                 /\ watches'[h].ev = e]_vars

\* the loop of a driver table watch has handled an Update, for which the
\* driver was notified of a Delete, after an earlier event
C17_Witness ==
    \E h \in DOMAIN watches :
        /\ watches[h].fn = "drv"
        /\ watches[h].ev.kind = "update"
        /\ watches[h].out # <<>>
        /\ watches[h].out[1].etype = "delete"
        /\ watches[h].prev # NoEv

\* the handles of the driver table watches registered for network n on the
\* agent's store that no cancelDriverWatches has invoked
Outstanding(n) ==
    {h \in DOMAIN watches :
        /\ watches[h].db = agent
        /\ watches[h].nid = n
        /\ "cancelDriverWatches" \notin watches[h].by}

\* C18: addDriverWatches and cancelDriverWatches that run concurrently lose no
\* update of the handle map: once all calls have returned, the list of each
\* network holds, once each, exactly the handles of the watches registered
\* for it that its cancelDriverWatches has not taken (stated for the first
\* agent, while no agentClose has cleared it)
C18_NoLostUpdate ==
    (Quiescent /\ Len(agents) = 1 /\ agent = 1) =>
        \A n \in Nets :
            LET lst == agents[agent].driverCancelFuncs[n]
            IN /\ {lst[i] : i \in DOMAIN lst} = Outstanding(n)
               /\ \A i, j \in DOMAIN lst : lst[i] = lst[j] => i = j

\* both callers have returned, one from addDriverWatches(n1) and the other
\* from a cancelDriverWatches(n2) that invoked a handle; n1's handles are
\* recorded and n2's are gone
C18_Witness ==
    /\ Quiescent /\ Len(agents) = 1 /\ agent = 1
    /\ \E p, q \in Procs :
        /\ pc[p] = "done" /\ loc[p].op = "addDriverWatches" /\ loc[p].n = "n1"
        /\ pc[q] = "done" /\ loc[q].op = "cancelDriverWatches" /\ loc[q].n = "n2"
        /\ loc[q].calls # <<>> /\ loc[q].calls[Len(loc[q].calls)].fn = "cancel"
    /\ Len(agents[agent].driverCancelFuncs["n1"]) = 2
    /\ agents[agent].driverCancelFuncs["n2"] = <<>>

\* the positions at which an operation that has passed its gate reads c.agent
\* again: the store call or the access to the handle map it is about to make
UsesAgent ==
    {"jc151", "lc160", "atc196", "atc201", "dfc229", "dfc234",
     "adw254", "adw255", "adw256", "adw266", "cdw279", "cdw281"}

\* C19: no operation that has passed its isClusterEligible check uses the
\* agent after agentClose has cleared c.agent: the process has not died of a
\* nil dereference in an operation that stands, past its gate, at a use of
\* c.agent with c.agent cleared
C19_NoUseAfterClose ==
    \A p \in Procs :
        (loc[p].op \in GatedOps /\ loc[p].elig /\ pc[p] \in UsesAgent /\ agent = 0)
            => crash # "nil"

\* the dispatch loop of driver table watch h runs and has a Create event to
\* receive
CreatePending(h) ==
    /\ watches[h].fn = "drv"
    /\ watches[h].loop = "run"
    /\ \E i \in DOMAIN watches[h].ch : watches[h].ch[i].kind = "create"

\* handleDriverTableEvent, called for the Create event e of watch w, notifies
\* the driver of a Create of e's key and value for the network if the driver
\* resolves; out is that call, or no call if the driver did not resolve
CreateDelivered(w, e, out) ==
    /\ handleDriverTableEvent(w.net, e, TRUE)
            = <<Notify("create", w.nid, e.table, e.key, e.value, "")>>
    /\ out \in {handleDriverTableEvent(w.net, e, TRUE), <<>>}

\* when the walk of a table starts, the watch of the table is registered for
\* the network and its dispatch loop is started; the walk hands the driver a
\* Create for every entry the table holds for the network
ReplayAfterWatch(p) ==
    LET l == loc[p] IN
    /\ pc[p] = "adw266" =>
            /\ l.h \in DOMAIN watches
            /\ watches[l.h].table = driverTables(l.n)[l.i]
            /\ watches[l.h].nid = l.n
            /\ watches[l.h].loop # "none"
    /\ l.op = "addDriverWatches" =>
            \A e \in l.snap :
                e.nid = l.n =>
                    \E j \in DOMAIN l.walk :
                        l.walk[j] = Notify("create", l.n, e.table, e.key, e.value, e.nid)

\* C20: no entry is missed between the replay and the watch: addDriverWatches
\* walks a table only once the table's watch is registered and its loop
\* started, and the walk replays every entry the table holds for the network;
\* an event leaves the channel of a driver table watch only by being handed
\* to handleDriverTableEvent, which for a Create notifies the driver of a
\* Create (provided the driver resolves); and every Create event that reaches
\* a running loop is eventually received: no loop is left for ever with a
\* Create to receive
C20_NoEntryMissed ==
    /\ [](\A p \in Procs : ReplayAfterWatch(p))
    /\ [][\A h \in DOMAIN watches :
            (watches[h].fn = "drv"
                /\ Len(watches'[h].ch) < Len(watches[h].ch)) =>
                    /\ watches'[h].ch = Tail(watches[h].ch)
                    /\ watches'[h].ev = Head(watches[h].ch)
                    /\ Head(watches[h].ch).kind = "create" =>
                            CreateDelivered(watches[h], Head(watches[h].ch),
                                            watches'[h].out)]_vars
    /\ []<>(\A h \in DOMAIN watches : ~CreatePending(h))

\* an entry of the network was in the table at walk time and was replayed;
\* created again afterwards, it reached the driver as a Create through the
\* watch
C20_Witness ==
    \E p \in Procs :
        /\ loc[p].op = "addDriverWatches"
        /\ \E e \in loc[p].snap : e.nid = loc[p].n
        /\ loc[p].walk # <<>>
        /\ watches[loc[p].h].ev.kind = "create"
        /\ watches[loc[p].h].out # <<>>
        /\ watches[loc[p].h].out[1].etype = "create"
====
